---- MODULE Spec2Model ----
(***************************************************************************)
(* Model of two leaf utilities of the IREE repository:                     *)
(*                                                                         *)
(*  - integrations/tensorflow/python_projects/iree_tflite/setup.py, the    *)
(*    packaging script of the iree-import-tflite tool.  The script is a    *)
(*    straight-line module body; every top-level statement is one action   *)
(*    and pc names the line about to execute.  The host (operating         *)
(*    system, files on disk, importable modules) is fixed for a run and    *)
(*    chosen by Init.                                                      *)
(*                                                                         *)
(*  - build_tools/python/e2e_test_framework/models/model_groups.py, the    *)
(*    model group registry.  Python lists are objects: a name holds a      *)
(*    reference into the heap, so the registry is modelled with a heap.    *)
(***************************************************************************)
EXTENDS Integers, Sequences, FiniteSets, TLC

VARIABLES
  \* ---- host environment of a build run (read-only during the run)
  system,            \* platform.system()
  fs_tool,           \* path of a tool file |-> "absent" | "noexec" | "exec"
  fs_version,        \* content of <IREESRC_DIR>/version_info.json
  wheel_importable,  \* whether `from wheel.bdist_wheel import ...` succeeds
  \* ---- module state of setup.py
  pc,                \* line of setup.py about to execute
  exe_suffix,
  import_tflite_path,
  version_info,
  PACKAGE_SUFFIX,
  PACKAGE_VERSION,
  bdist_wheel,       \* "unbound" | "class" (the subclass) | "None"
  exception,         \* the uncaught exception that ended the run, if any
  stdout,            \* lines printed
  accessed,          \* paths handed to os.access
  version_file_opened,
  setup_kwargs,      \* keyword arguments of the setup() call
  setup_calls,       \* number of setup() calls
  stages,            \* stages completed so far, in order
  \* ---- the packaging tool running the command classes it was given
  root_is_pure,      \* "unset" | "True" | "False"  (wheel command)
  install_lib,       \* "unset" | "purelib" | "platlib"  (install command)
  base_tag,          \* what _bdist_wheel.get_tag returned
  tag,               \* what bdist_wheel.get_tag returned
  archive,           \* whether the tool finished and produced its output
  \* ---- model_groups.py
  src,               \* the list literals of the source file
  heap,              \* object id |-> list contents
  SMALL, LARGE, ALL, \* module names: object id, 0 when not bound
  edits,             \* source edits made so far
  updates            \* in-place list updates made since the module was loaded

buildEnv  == <<system, fs_tool, fs_version, wheel_importable>>
buildVars == <<pc, exe_suffix, import_tflite_path, version_info,
               PACKAGE_SUFFIX, PACKAGE_VERSION, bdist_wheel, exception, stdout,
               accessed, version_file_opened, setup_kwargs, setup_calls, stages>>
toolVars  == <<root_is_pure, install_lib, base_tag, tag, archive>>
regVars   == <<src, heap, SMALL, LARGE, ALL, edits, updates>>
vars      == <<buildEnv, buildVars, toolVars, regVars>>

----------------------------------------------------------------------------
(* setup.py : values                                                       *)

Unbound == "<unbound>"

Systems == {"Windows", "Linux", "Darwin"}

ToolBaseName == "iree-import-tflite"
ToolDir      == "./iree/tools/tflite/"
PackageBaseName == "iree-tools-tflite"
DefaultVersion  == "0.1dev1"
BuildInstruction ==
  "Be sure to build //iree_tf_compiler:iree-import-tflite and run ./symlink_binaries.sh"
NotFoundWarning == "version_info.json not found. Using defaults"

ToolPaths == {ToolDir \o ToolBaseName, ToolDir \o ToolBaseName \o ".exe"}

\* Python values that the version record can hold or yield.
None == [t |-> "None", v |-> ""]
Str(s) == [t |-> "str", v |-> s]

SuffixValues  == {"", "-nightly"}
VersionValues == {"", "1.2.3", "9.9.9"}

\* The JSON objects version_info.json may hold: each field absent or a string.
Records ==
  { [k \in ks |-> IF k = "package-suffix" THEN sv ELSE vv] :
      ks \in SUBSET {"package-suffix", "package-version"},
      sv \in SuffixValues, vv \in VersionValues }

EmptyDict == [k \in {} |-> ""]

\* Contents of version_info.json:
\*   absent     - no such file
\*   invalid    - a file that is not JSON
\*   nonrecord  - JSON that is not an object (a list, a string, a number, null)
\*   record     - a JSON object
VersionFiles ==
  {[kind |-> "absent", data |-> EmptyDict],
   [kind |-> "invalid", data |-> EmptyDict],
   [kind |-> "nonrecord", data |-> EmptyDict]}
  \cup {[kind |-> "record", data |-> d] : d \in Records}

NoException == [type |-> "", msg |-> <<>>, stage |-> ""]
NoKwargs == [name |-> Unbound, version |-> Unbound, package_data |-> Unbound,
             bdist_wheel |-> Unbound, install |-> Unbound]

BaseTags ==
  {<<py, abi, plat>> : py \in {"cp38", "cp311"}, abi \in {"cp38", "abi3"},
                       plat \in {"linux_x86_64", "win_amd64", "macosx_11_0_arm64"}}
NoTag == <<"", "", "">>

----------------------------------------------------------------------------
(* setup.py : pure helpers                                                 *)

\* line 22: ".exe" if platform.system() == "Windows" else ""
ExeSuffix(sys) == IF sys = "Windows" THEN ".exe" ELSE ""

\* lines 23-24: os.path.join(dirname, "iree", "tools", "tflite", f"iree-import-tflite{exe_suffix}")
ImportTflitePath(suffix) == ToolDir \o ToolBaseName \o suffix

os_access_F_OK(path) == fs_tool[path] # "absent"

\* line 25: os.access(path, os.X_OK)
os_access_X_OK(path) == fs_tool[path] = "exec"

\* lines 26-28: the RuntimeError message, as its parts
ToolNotFoundMessage(path) == <<"Tool not found (", path, "). ", BuildInstruction>>

\* The stage a line belongs to.
StageOf(line) ==
  CASE line \in {"L22", "L23", "L25"} -> "resolve"
    [] line \in {"L41"}               -> "load-version"
    [] line \in {"L47", "L48"}        -> "compute-identity"
    [] line \in {"L52"}               -> "classes"
    [] OTHER                          -> "emit"

\* lines 36-38: load_version_info() -> the exception type it raises ("" if none)
LoadRaises(file) ==
  CASE file.kind = "absent"  -> "FileNotFoundError"
    [] file.kind = "invalid" -> "JSONDecodeError"
    [] OTHER                 -> ""

CatchesAll(type) == TRUE

\* line 43: except FileNotFoundError
Catches(type) == type = "FileNotFoundError"

\* dict.get(key): the value, or None when the key is missing
dict_get(d, key) == IF key \in DOMAIN d THEN Str(d[key]) ELSE None

Truthy(x) == x.t = "str" /\ x.v # ""

python_or_first(x, default) == x.v

\* `x or default`
python_or(x, default) == IF Truthy(x) THEN x.v ELSE default

PackageVersionCoupled(d) ==
  IF Truthy(dict_get(d, "package-suffix"))
    THEN python_or(dict_get(d, "package-version"), DefaultVersion)
    ELSE DefaultVersion

\* line 47
PackageSuffixOf(d) == python_or(dict_get(d, "package-suffix"), "")

\* line 48
PackageVersionOf(d) == python_or(dict_get(d, "package-version"), DefaultVersion)

BundledFileFixed(suffix) == ToolBaseName

\* line 104: f"iree-import-tflite{exe_suffix}"
BundledFile(suffix) == ToolBaseName \o suffix

get_tag_any(base) == <<"py3", "none", "any">>

\* lines 61-66: bdist_wheel.get_tag, given what _bdist_wheel.get_tag returned
get_tag(base) == <<"py3", "none", base[3]>>

----------------------------------------------------------------------------
(* setup.py : the module body, one action per statement                    *)

\* An uncaught exception ends the run at the line that raised it.
Raise(type, msg) ==
  /\ pc' = "failed"
  /\ exception' = [type |-> type, msg |-> msg, stage |-> StageOf(pc)]

\* line 22
ChooseExeSuffix ==
  /\ pc = "L22"
  /\ exe_suffix' = ExeSuffix(system)
  /\ pc' = "L23"
  /\ UNCHANGED <<import_tflite_path, version_info, PACKAGE_SUFFIX, PACKAGE_VERSION,
                 bdist_wheel, exception, stdout, accessed, version_file_opened,
                 setup_kwargs, setup_calls, stages>>
  /\ UNCHANGED <<buildEnv, toolVars, regVars>>

\* lines 23-24
ComputeToolPath ==
  /\ pc = "L23"
  /\ import_tflite_path' = ImportTflitePath(exe_suffix)
  /\ pc' = "L25"
  /\ UNCHANGED <<exe_suffix, version_info, PACKAGE_SUFFIX, PACKAGE_VERSION,
                 bdist_wheel, exception, stdout, accessed, version_file_opened,
                 setup_kwargs, setup_calls, stages>>
  /\ UNCHANGED <<buildEnv, toolVars, regVars>>

\* A check that reports the missing tool and carries on.
CheckToolWarnOnly ==
  /\ pc = "L25"
  /\ accessed' = accessed \cup {import_tflite_path}
  /\ pc' = "L41"
  /\ stages' = Append(stages, "resolve")
  /\ exception' = IF os_access_X_OK(import_tflite_path) THEN exception
                  ELSE [type |-> "RuntimeError",
                        msg |-> ToolNotFoundMessage(import_tflite_path),
                        stage |-> StageOf(pc)]
  /\ UNCHANGED <<exe_suffix, import_tflite_path, version_info, PACKAGE_SUFFIX,
                 PACKAGE_VERSION, bdist_wheel, stdout, version_file_opened,
                 setup_kwargs, setup_calls>>
  /\ UNCHANGED <<buildEnv, toolVars, regVars>>

\* lines 25-28
CheckTool ==
  /\ pc = "L25"
  /\ accessed' = accessed \cup {import_tflite_path}
  /\ IF os_access_X_OK(import_tflite_path)
       THEN /\ pc' = "L41"
            /\ stages' = Append(stages, "resolve")
            /\ UNCHANGED exception
       ELSE /\ Raise("RuntimeError", ToolNotFoundMessage(import_tflite_path))
            /\ UNCHANGED stages
  /\ UNCHANGED <<exe_suffix, import_tflite_path, version_info, PACKAGE_SUFFIX,
                 PACKAGE_VERSION, bdist_wheel, stdout, version_file_opened,
                 setup_kwargs, setup_calls>>
  /\ UNCHANGED <<buildEnv, toolVars, regVars>>

\* lines 36-45: load_version_info() inside try / except FileNotFoundError
LoadVersion ==
  /\ pc = "L41"
  /\ version_file_opened' = TRUE
  /\ LET raised == LoadRaises(fs_version) IN
       IF raised = ""
         THEN /\ version_info' = fs_version
              /\ pc' = "L47"
              /\ stages' = Append(stages, "load-version")
              /\ UNCHANGED <<exception, stdout>>
         ELSE IF Catches(raised)
           THEN /\ stdout' = Append(stdout, NotFoundWarning)
                /\ version_info' = [kind |-> "record", data |-> EmptyDict]
                /\ pc' = "L47"
                /\ stages' = Append(stages, "load-version")
                /\ UNCHANGED exception
           ELSE /\ Raise(raised, <<>>)
                /\ UNCHANGED <<version_info, stdout, stages>>
  /\ UNCHANGED <<exe_suffix, import_tflite_path, PACKAGE_SUFFIX, PACKAGE_VERSION,
                 bdist_wheel, accessed, setup_kwargs, setup_calls>>
  /\ UNCHANGED <<buildEnv, toolVars, regVars>>

\* line 47: version_info.get("package-suffix") or ""
\* A value json.load returned that is no dict has no attribute `get`.
ComputeSuffix ==
  /\ pc = "L47"
  /\ IF version_info.kind = "record"
       THEN /\ PACKAGE_SUFFIX' = PackageSuffixOf(version_info.data)
            /\ pc' = "L48"
            /\ UNCHANGED exception
       ELSE /\ Raise("AttributeError", <<>>)
            /\ UNCHANGED PACKAGE_SUFFIX
  /\ UNCHANGED <<exe_suffix, import_tflite_path, version_info, PACKAGE_VERSION,
                 bdist_wheel, stdout, accessed, version_file_opened,
                 setup_kwargs, setup_calls, stages>>
  /\ UNCHANGED <<buildEnv, toolVars, regVars>>

\* line 48: version_info.get("package-version") or "0.1dev1"
ComputeVersion ==
  /\ pc = "L48"
  /\ PACKAGE_VERSION' = PackageVersionOf(version_info.data)
  /\ pc' = "L52"
  /\ stages' = Append(stages, "compute-identity")
  /\ UNCHANGED <<exe_suffix, import_tflite_path, version_info, PACKAGE_SUFFIX,
                 bdist_wheel, exception, stdout, accessed, version_file_opened,
                 setup_kwargs, setup_calls>>
  /\ UNCHANGED <<buildEnv, toolVars, regVars>>

\* lines 52-69: try: import and subclass / except ImportError: bdist_wheel = None
DefineWheelCommand ==
  /\ pc = "L52"
  /\ bdist_wheel' = IF wheel_importable THEN "class" ELSE "None"
  /\ pc' = "L83"
  /\ UNCHANGED <<exe_suffix, import_tflite_path, version_info, PACKAGE_SUFFIX,
                 PACKAGE_VERSION, exception, stdout, accessed, version_file_opened,
                 setup_kwargs, setup_calls, stages>>
  /\ UNCHANGED <<buildEnv, toolVars, regVars>>

\* lines 83-116: the setup(...) call
Setup ==
  /\ pc = "L83"
  /\ setup_kwargs' = [name         |-> PackageBaseName \o PACKAGE_SUFFIX,
                      version      |-> PACKAGE_VERSION,
                      package_data |-> BundledFile(exe_suffix),
                      bdist_wheel  |-> bdist_wheel,
                      install      |-> "platlib_install"]
  /\ setup_calls' = setup_calls + 1
  /\ stages' = Append(stages, "emit")
  /\ pc' = "tool"
  /\ UNCHANGED <<exe_suffix, import_tflite_path, version_info, PACKAGE_SUFFIX,
                 PACKAGE_VERSION, bdist_wheel, exception, stdout, accessed,
                 version_file_opened>>
  /\ UNCHANGED <<buildEnv, toolVars, regVars>>

----------------------------------------------------------------------------
(* setup.py : the command classes, run by the packaging tool               *)

\* The base class alone: a distribution without extension modules is pure.
bdist_wheel_finalize_options_base ==
  /\ pc = "tool"
  /\ setup_kwargs.bdist_wheel = "class"
  /\ root_is_pure = "unset"
  /\ root_is_pure' = "True"
  /\ UNCHANGED <<install_lib, base_tag, tag, archive>>
  /\ UNCHANGED <<buildEnv, buildVars, regVars>>

\* lines 57-59: _bdist_wheel.finalize_options(self); self.root_is_pure = False
bdist_wheel_finalize_options ==
  /\ pc = "tool"
  /\ setup_kwargs.bdist_wheel = "class"
  /\ root_is_pure = "unset"
  /\ root_is_pure' = "False"
  /\ UNCHANGED <<install_lib, base_tag, tag, archive>>
  /\ UNCHANGED <<buildEnv, buildVars, regVars>>

\* lines 61-66
bdist_wheel_get_tag ==
  /\ pc = "tool"
  /\ root_is_pure # "unset"
  /\ tag = NoTag
  /\ \E b \in BaseTags :
       /\ base_tag' = b
       /\ tag' = get_tag(b)
  /\ UNCHANGED <<root_is_pure, install_lib, archive>>
  /\ UNCHANGED <<buildEnv, buildVars, regVars>>

\* The base class alone: a pure distribution installs into purelib.
platlib_install_finalize_options_base ==
  /\ pc = "tool"
  /\ install_lib = "unset"
  /\ install_lib' = "purelib"
  /\ UNCHANGED <<root_is_pure, base_tag, tag, archive>>
  /\ UNCHANGED <<buildEnv, buildVars, regVars>>

\* lines 78-80: install.finalize_options(self); self.install_lib = self.install_platlib
platlib_install_finalize_options ==
  /\ pc = "tool"
  /\ install_lib = "unset"
  /\ install_lib' = "platlib"
  /\ UNCHANGED <<root_is_pure, base_tag, tag, archive>>
  /\ UNCHANGED <<buildEnv, buildVars, regVars>>

\* setup() returns once the commands it was given have run.
SetupReturns ==
  /\ pc = "tool"
  /\ install_lib # "unset"
  /\ setup_kwargs.bdist_wheel = "class" => tag # NoTag
  /\ archive' = TRUE
  /\ pc' = "done"
  /\ UNCHANGED <<exe_suffix, import_tflite_path, version_info, PACKAGE_SUFFIX,
                 PACKAGE_VERSION, bdist_wheel, exception, stdout, accessed,
                 version_file_opened, setup_kwargs, setup_calls, stages>>
  /\ UNCHANGED <<root_is_pure, install_lib, base_tag, tag>>
  /\ UNCHANGED <<buildEnv, regVars>>

----------------------------------------------------------------------------
(* setup.py : specification                                                *)

\* os.access(path, os.X_OK) on Windows is true of every existing file, so a
\* Windows host has no file that exists and is not executable.
BuildEnvInit ==
  /\ system \in Systems
  /\ fs_tool \in [ToolPaths -> {"absent", "noexec", "exec"}]
  /\ system = "Windows" => \A p \in ToolPaths : fs_tool[p] # "noexec"
  /\ fs_version \in VersionFiles
  /\ wheel_importable \in BOOLEAN

BuildStart ==
  /\ pc = "L22"
  /\ exe_suffix = Unbound
  /\ import_tflite_path = Unbound
  /\ version_info = [kind |-> "unbound", data |-> EmptyDict]
  /\ PACKAGE_SUFFIX = Unbound
  /\ PACKAGE_VERSION = Unbound
  /\ bdist_wheel = "unbound"
  /\ exception = NoException
  /\ stdout = <<>>
  /\ accessed = {}
  /\ version_file_opened = FALSE
  /\ setup_kwargs = NoKwargs
  /\ setup_calls = 0
  /\ stages = <<>>
  /\ root_is_pure = "unset"
  /\ install_lib = "unset"
  /\ base_tag = NoTag
  /\ tag = NoTag
  /\ archive = FALSE

----------------------------------------------------------------------------
(* model_groups.py                                                         *)

MaxEdits   == 2
MaxUpdates == 2

Groups == {"SMALL", "LARGE"}

\* lines 11-23
SMALL_DECLARED ==
  << "tflite_models.DEEPLABV3_FP32",
     "tflite_models.MOBILESSD_FP32",
     "tflite_models.POSENET_FP32",
     "tflite_models.MOBILEBERT_FP32",
     "tflite_models.MOBILEBERT_INT8",
     "tflite_models.MOBILEBERT_FP16",
     "tflite_models.MOBILENET_V1",
     "tflite_models.MOBILENET_V2",
     "tflite_models.MOBILENET_V3SMALL",
     "tflite_models.PERSON_DETECT_INT8",
     "tflite_models.EFFICIENTNET_INT8" >>

\* lines 26-28
LARGE_DECLARED ==
  << "tf_models.MINILM_L12_H384_UNCASED_INT32_SEQLEN128" >>

\* The descriptors an update adds or removes.
UpdateModels ==
  {"tflite_models.MOBILENET_V2", "tf_models.MINILM_L12_H384_UNCASED_INT32_SEQLEN128"}

Range(s) == {s[i] : i \in DOMAIN s}

\* Index of the first occurrence of m in s (m occurs in s).
FirstIndex(s, m) == CHOOSE i \in DOMAIN s : s[i] = m /\ \A j \in 1..(i - 1) : s[j] # m

\* list.remove(m): s without the first occurrence of m
list_remove(s, m) ==
  LET i == FirstIndex(s, m) IN SubSeq(s, 1, i - 1) \o SubSeq(s, i + 1, Len(s))

\* A list display `[...]` evaluates to a new list object.
NewList(h, items) == [heap |-> Append(h, items), ref |-> Len(h) + 1]

\* `a += b` on the object of a: extends it in place and yields the same object.
list_iadd(h, a, b) == [heap |-> [h EXCEPT ![a] = h[a] \o h[b]], ref |-> a]

list_add_reversed(h, a, b) == NewList(h, h[b] \o h[a])

\* line 30: `a + b` on lists yields a new list object holding a's items, then b's.
list_add(h, a, b) == NewList(h, h[a] \o h[b])

\* What a read of a bound name yields.
Val(ref) == heap[ref]
ValSMALL == Val(SMALL)
ValLARGE == Val(LARGE)
ValALL   == Val(ALL)

Loaded == ALL # 0

RefOf(g) == IF g = "SMALL" THEN SMALL ELSE LARGE

\* Build time: a descriptor is added to a list literal of the source file.
EditSourceAdd ==
  /\ SMALL = 0
  /\ edits < MaxEdits
  /\ \E g \in Groups, m \in UpdateModels :
       src' = [src EXCEPT ![g] = Append(@, m)]
  /\ edits' = edits + 1
  /\ UNCHANGED <<heap, SMALL, LARGE, ALL, updates>>
  /\ UNCHANGED <<buildEnv, buildVars, toolVars>>

\* Build time: a descriptor is removed from a list literal of the source file.
EditSourceRemove ==
  /\ SMALL = 0
  /\ edits < MaxEdits
  /\ \E g \in Groups, m \in UpdateModels :
       /\ m \in Range(src[g])
       /\ src' = [src EXCEPT ![g] = list_remove(@, m)]
  /\ edits' = edits + 1
  /\ UNCHANGED <<heap, SMALL, LARGE, ALL, updates>>
  /\ UNCHANGED <<buildEnv, buildVars, toolVars>>

\* lines 11-23: SMALL = [...]
BindSMALL ==
  /\ SMALL = 0
  /\ LET r == NewList(heap, src["SMALL"]) IN
       /\ heap' = r.heap
       /\ SMALL' = r.ref
  /\ UNCHANGED <<src, LARGE, ALL, edits, updates>>
  /\ UNCHANGED <<buildEnv, buildVars, toolVars>>

\* lines 26-28: LARGE = [...]
BindLARGE ==
  /\ SMALL # 0
  /\ LARGE = 0
  /\ LET r == NewList(heap, src["LARGE"]) IN
       /\ heap' = r.heap
       /\ LARGE' = r.ref
  /\ UNCHANGED <<src, SMALL, ALL, edits, updates>>
  /\ UNCHANGED <<buildEnv, buildVars, toolVars>>

\* line 30: ALL = SMALL + LARGE
BindALL ==
  /\ LARGE # 0
  /\ ALL = 0
  /\ LET r == list_add(heap, SMALL, LARGE) IN
       /\ heap' = r.heap
       /\ ALL' = r.ref
  /\ UNCHANGED <<src, SMALL, LARGE, edits, updates>>
  /\ UNCHANGED <<buildEnv, buildVars, toolVars>>

\* Run time: an importer appends to the list object of a group.
AppendInPlace ==
  /\ Loaded
  /\ updates < MaxUpdates
  /\ \E g \in Groups, m \in UpdateModels :
       heap' = [heap EXCEPT ![RefOf(g)] = Append(@, m)]
  /\ updates' = updates + 1
  /\ UNCHANGED <<src, SMALL, LARGE, ALL, edits>>
  /\ UNCHANGED <<buildEnv, buildVars, toolVars>>

\* Run time: an importer removes a descriptor from the list object of a group.
RemoveInPlace ==
  /\ Loaded
  /\ updates < MaxUpdates
  /\ \E g \in Groups, m \in UpdateModels :
       /\ m \in Range(heap[RefOf(g)])
       /\ heap' = [heap EXCEPT ![RefOf(g)] = list_remove(@, m)]
  /\ updates' = updates + 1
  /\ UNCHANGED <<src, SMALL, LARGE, ALL, edits>>
  /\ UNCHANGED <<buildEnv, buildVars, toolVars>>

\* The importing process ends; its objects are gone.
ProcessExit ==
  /\ Loaded
  /\ heap' = <<>>
  /\ SMALL' = 0
  /\ LARGE' = 0
  /\ ALL' = 0
  /\ updates' = 0
  /\ UNCHANGED <<src, edits>>
  /\ UNCHANGED <<buildEnv, buildVars, toolVars>>

RegistryStart ==
  /\ src = [g \in Groups |-> IF g = "SMALL" THEN SMALL_DECLARED ELSE LARGE_DECLARED]
  /\ heap = <<>>
  /\ SMALL = 0
  /\ LARGE = 0
  /\ ALL = 0
  /\ edits = 0
  /\ updates = 0

----------------------------------------------------------------------------
(* Specifications                                                          *)

\* A build run of setup.py on any host.
Init == BuildEnvInit /\ BuildStart /\ RegistryStart

Next ==
  \/ ChooseExeSuffix
  \/ ComputeToolPath
  \/ CheckTool
  \/ LoadVersion
  \/ ComputeSuffix
  \/ ComputeVersion
  \/ DefineWheelCommand
  \/ Setup
  \/ bdist_wheel_finalize_options
  \/ bdist_wheel_get_tag
  \/ platlib_install_finalize_options
  \/ SetupReturns

Spec == Init /\ [][Next]_vars

\* The registry module through source edits, loads and in-place updates.
RegistryInit ==
  /\ RegistryStart
  /\ BuildStart
  /\ system = "Linux"
  /\ fs_tool = [p \in ToolPaths |-> "absent"]
  /\ fs_version = [kind |-> "absent", data |-> EmptyDict]
  /\ wheel_importable = FALSE

RegistryNext ==
  \/ EditSourceAdd
  \/ EditSourceRemove
  \/ BindSMALL
  \/ BindLARGE
  \/ BindALL
  \/ AppendInPlace
  \/ RemoveInPlace
  \/ ProcessExit

SpecRegistry == RegistryInit /\ [][RegistryNext]_vars

----------------------------------------------------------------------------
(* Properties of setup.py (checked under Spec)                             *)

\* The path the run is meant to check: fixed directory, tool name, platform suffix.
ResolvedPath ==
  IF system = "Windows" THEN "./iree/tools/tflite/iree-import-tflite.exe"
                        ELSE "./iree/tools/tflite/iree-import-tflite"

ToolOk == fs_tool[ResolvedPath] = "exec"

ResolveLines == {"L22", "L23", "L25"}

LinearStages == <<"resolve", "load-version", "compute-identity", "emit">>

IsPrefix(s, t) == Len(s) <= Len(t) /\ \A i \in DOMAIN s : s[i] = t[i]

Has(d, k) == k \in DOMAIN d /\ d[k] # ""

\* C1: when the file at the resolved path is missing or not executable, the run
\* never gets past the resolve stage: it ends there with an error whose message
\* holds the resolved path and the build instruction, the version file is never
\* opened, no setup() arguments are assembled, setup() is never called and no
\* archive is produced.
C1_MissingToolAborts ==
  ~ToolOk =>
    /\ pc \in ResolveLines \cup {"failed"}
    /\ pc = "failed" =>
         /\ exception.type = "RuntimeError"
         /\ exception.stage = "resolve"
         /\ ResolvedPath \in Range(exception.msg)
         /\ BuildInstruction \in Range(exception.msg)
    /\ ~version_file_opened
    /\ stages = <<>>
    /\ setup_kwargs = NoKwargs
    /\ setup_calls = 0
    /\ ~archive

\* C1 witness: a tool file that exists without the executable bit ended the run.
C1_Witness ==
  /\ pc = "failed"
  /\ fs_tool[ResolvedPath] = "noexec"
  /\ exception.type = "RuntimeError"

\* C2 (as claimed): a version file that exists but is not a record, whether
\* invalid JSON or JSON that is no object, ends the run at the load-version
\* stage, without emit and without the defaults of the file-absent case.
C2_BadVersionFileFailsAtLoad ==
  fs_version.kind \in {"invalid", "nonrecord"} =>
    /\ pc \in ResolveLines \cup {"L41", "failed"}
    /\ (pc = "failed" /\ ToolOk) => exception.stage = "load-version"
    /\ PACKAGE_SUFFIX = Unbound
    /\ PACKAGE_VERSION = Unbound
    /\ setup_calls = 0

\* C2 (amended): a version file that exists but is not a record is fatal and
\* never falls back to the defaults: invalid JSON ends the run at the
\* load-version stage; JSON that is no object is loaded and ends the run at the
\* compute-identity stage, on the first field lookup.  Neither reaches emit.
C2_BadVersionFileIsFatal ==
  /\ fs_version.kind = "invalid" =>
       /\ pc \in ResolveLines \cup {"L41", "failed"}
       /\ (pc = "failed" /\ ToolOk) =>
             exception.stage = "load-version" /\ exception.type = "JSONDecodeError"
  /\ fs_version.kind = "nonrecord" =>
       /\ pc \in ResolveLines \cup {"L41", "L47", "failed"}
       /\ (pc = "failed" /\ ToolOk) =>
             exception.stage = "compute-identity" /\ exception.type = "AttributeError"
  /\ fs_version.kind \in {"invalid", "nonrecord"} =>
       /\ PACKAGE_SUFFIX = Unbound
       /\ PACKAGE_VERSION = Unbound
       /\ stdout = <<>>
       /\ version_info.kind # "record"
       /\ setup_kwargs = NoKwargs
       /\ setup_calls = 0
       /\ ~archive

\* C2 witness: JSON that is no object was loaded and ended the run.
C2_Witness ==
  /\ pc = "failed"
  /\ fs_version.kind = "nonrecord"
  /\ "load-version" \in Range(stages)
  /\ exception.type = "AttributeError"

\* C3: with an executable tool and no version file the run does not fail: once
\* past loading, the warning has been printed and the record is the empty
\* record, and the package handed to setup() is named exactly the base name
\* with version exactly the default placeholder.
C3_AbsentVersionFileUsesDefaults ==
  (ToolOk /\ fs_version.kind = "absent") =>
    /\ pc # "failed"
    /\ exception = NoException
    /\ "load-version" \in Range(stages) =>
         /\ stdout = <<"version_info.json not found. Using defaults">>
         /\ version_info = [kind |-> "record", data |-> EmptyDict]
    /\ setup_calls > 0 =>
         /\ setup_kwargs.name = "iree-tools-tflite"
         /\ setup_kwargs.version = "0.1dev1"

\* C3 witness: such a run finished.
C3_Witness ==
  /\ pc = "done"
  /\ archive
  /\ fs_version.kind = "absent"
  /\ stdout # <<>>

\* C4: the two fields fall back independently.  The name is the base name
\* followed by the suffix field when present and non-empty, else the base name;
\* the version is the version field when present and non-empty, else 0.1dev1.
C4_FieldsFallBackIndependently ==
  (setup_calls > 0 /\ version_info.kind = "record") =>
    LET d == version_info.data IN
      /\ setup_kwargs.name =
           IF Has(d, "package-suffix")
             THEN "iree-tools-tflite" \o d["package-suffix"]
             ELSE "iree-tools-tflite"
      /\ setup_kwargs.version =
           IF Has(d, "package-version") THEN d["package-version"] ELSE "0.1dev1"
      /\ d = [k \in {"package-version"} |-> "9.9.9"] =>
           /\ setup_kwargs.name = "iree-tools-tflite"
           /\ setup_kwargs.version = "9.9.9"
      /\ d = [k \in {"package-suffix", "package-version"} |->
                IF k = "package-suffix" THEN "-nightly" ELSE "1.2.3"] =>
           /\ setup_kwargs.name = "iree-tools-tflite-nightly"
           /\ setup_kwargs.version = "1.2.3"

\* C4 witness: a record with only a version reached setup().
C4_Witness ==
  /\ setup_calls > 0
  /\ fs_version.kind = "record"
  /\ DOMAIN fs_version.data = {"package-version"}
  /\ fs_version.data["package-version"] = "9.9.9"
  /\ setup_kwargs.version = "9.9.9"

\* C5 (as claimed): every finished run has root_is_pure false in the wheel
\* command and installs into platlib, whatever the host and whether or not the
\* wheel module can be imported.
C5_AlwaysPlatformSpecific ==
  pc = "done" => (root_is_pure = "False" /\ install_lib = "platlib")

\* C5 (amended): every finished run installs into platlib, on every host.
\* root_is_pure is false in the wheel command exactly when the wheel module
\* can be imported; when it cannot, setup() is given no wheel command class
\* and root_is_pure is never set.
C5_PlatformSpecificWhenWheelImportable ==
  /\ setup_calls > 0 =>
       /\ setup_kwargs.install = "platlib_install"
       /\ setup_kwargs.bdist_wheel = IF wheel_importable THEN "class" ELSE "None"
  /\ pc = "done" =>
       /\ install_lib = "platlib"
       /\ wheel_importable => root_is_pure = "False"
       /\ ~wheel_importable => root_is_pure = "unset"

\* C5 witness: a run without the wheel module finished.
C5_Witness ==
  /\ pc = "done"
  /\ ~wheel_importable
  /\ install_lib = "platlib"
  /\ setup_kwargs.bdist_wheel = "None"

StageState ==
  /\ IsPrefix(stages, LinearStages)
  /\ setup_calls \in {0, 1}
  /\ setup_calls = 1 <=> stages = LinearStages
  /\ exception # NoException <=> pc = "failed"
  /\ pc = "failed" =>
       /\ setup_calls = 0
       /\ ~archive
       /\ Len(stages) < Len(LinearStages)
       /\ exception.stage = LinearStages[Len(stages) + 1]
       /\ exception.type # "FileNotFoundError"
  /\ (fs_version.kind = "absent" /\ "load-version" \in Range(stages)) =>
       pc # "failed"

LineRank(line) ==
  CASE line = "L22" -> 1 [] line = "L23" -> 2 [] line = "L25" -> 3
    [] line = "L41" -> 4 [] line = "L47" -> 5 [] line = "L48" -> 6
    [] line = "L52" -> 7 [] line = "L83" -> 8 [] line = "tool" -> 9
    [] OTHER -> 10

\* C8: a run is the linear sequence resolve, load-version, compute-identity,
\* emit.  The stages completed are always a prefix of that sequence, control
\* never moves to an earlier line, setup() is called at most once and only
\* after the other three stages, an uncaught exception ends the run in the
\* stage that raised it without emit, and a missing version file does not end
\* the run.
C8_LinearStages ==
  /\ []StageState
  /\ [][ /\ LineRank(pc') >= LineRank(pc)
         /\ IsPrefix(stages, stages')
         /\ Len(stages') <= Len(stages) + 1
         /\ pc \in {"done", "failed"} => pc' = pc ]_vars

\* C8 witness: a run with no version file completed all four stages.
C8_Witness ==
  /\ pc = "done"
  /\ stages = LinearStages
  /\ fs_version.kind = "absent"

\* C9: the tag of the wheel command is (py3, none, P) with P the platform
\* component of the base command's tag, for every base tag.
C9_TagKeepsPlatform ==
  tag # NoTag =>
    /\ tag[1] = "py3"
    /\ tag[2] = "none"
    /\ tag[3] = base_tag[3]
    /\ tag[3] # "any"

\* C9 witness: a base tag with other python and abi components was overridden.
C9_Witness ==
  /\ tag # NoTag
  /\ base_tag = <<"cp311", "abi3", "win_amd64">>

SuffixState ==
  /\ exe_suffix # Unbound =>
       /\ exe_suffix = ".exe" <=> system = "Windows"
       /\ exe_suffix = "" <=> system # "Windows"
  /\ setup_calls > 0 =>
       /\ setup_kwargs.package_data = "iree-import-tflite" \o exe_suffix
       /\ accessed = {"./iree/tools/tflite/" \o setup_kwargs.package_data}
       /\ fs_tool["./iree/tools/tflite/" \o setup_kwargs.package_data] = "exec"

\* C10: the suffix is .exe exactly on Windows and empty elsewhere, it is bound
\* once and never rebound, and the file name bundled into the package is the
\* file name whose executability the resolve stage checked.
C10_BundledFileIsCheckedFile ==
  /\ []SuffixState
  /\ [][exe_suffix # Unbound => exe_suffix' = exe_suffix]_vars

\* C10 witness: a Windows run reached setup().
C10_Witness ==
  /\ setup_calls > 0
  /\ system = "Windows"
  /\ setup_kwargs.package_data = "iree-import-tflite.exe"

----------------------------------------------------------------------------
(* Properties of model_groups.py (checked under SpecRegistry)              *)

\* C6: ALL holds the items of the declared SMALL followed by the items of the
\* declared LARGE: the lengths add up and every item keeps its place, with
\* nothing dropped, added, reordered or deduplicated.
C6_AllIsConcatenation ==
  Loaded =>
    LET S == src["SMALL"]
        L == src["LARGE"]
    IN /\ Len(ValALL) = Len(S) + Len(L)
       /\ \A i \in 1..Len(S) : ValALL[i] = S[i]
       /\ \A j \in 1..Len(L) : ValALL[Len(S) + j] = L[j]

\* C6 witness: the module is loaded with a descriptor declared in both groups.
C6_Witness ==
  /\ Loaded
  /\ Len(src["LARGE"]) >= 2
  /\ Range(src["SMALL"]) \cap Range(src["LARGE"]) # {}

\* C7 (as claimed): whatever updates were made to SMALL or LARGE, a read of ALL
\* yields the concatenation of the current SMALL and the current LARGE.
C7_AllNeverStale ==
  Loaded => ValALL = ValSMALL \o ValLARGE

\* C7 (amended): ALL is the concatenation of SMALL and LARGE as they are when
\* line 30 runs; an update made to the SMALL or LARGE list afterwards does not
\* change what ALL reads, so it reaches ALL only when the module is loaded again.
C7_AllIsLoadTimeSnapshot ==
  [][ /\ (~Loaded /\ Loaded') => ValALL' = ValSMALL' \o ValLARGE'
      /\ (Loaded /\ Loaded') => ValALL' = ValALL ]_vars

\* C7 witness: after an in-place update ALL differs from the current groups.
C7_Witness ==
  /\ Loaded
  /\ updates > 0
  /\ ValALL # ValSMALL \o ValLARGE
  /\ ValALL = src["SMALL"] \o src["LARGE"]

====
